---- MODULE Spec2Model ----
(***************************************************************************)
(* Model of the mrelo package (margin-of-victory Elo rating model and its  *)
(* hyperparameter optimizers): src/mrelo/elo.py, src/mrelo/hyperparams.py  *)
(* and src/mrelo/optimizer.py; and of the DORM query builder over sqlite,  *)
(* src/dorm/dorm.py.                                                       *)
(*                                                                         *)
(* Numbers.  Python floats are binary floating point numbers: every        *)
(* arithmetic result is rounded to the nearest number with a fixed number  *)
(* of significant bits (53 for a double), ties to even.  The model keeps   *)
(* exactly this arithmetic with a significand of Precision bits and an     *)
(* unbounded exponent: a finite number is the record [m, e] standing for   *)
(* m * 2^e with m odd (or m = 0, e = 0), so that two records are equal iff *)
(* the numbers are.  nan, None and -inf are three further records.         *)
(*                                                                         *)
(* Specifications.  SpecElo: one call of a function of elo.py on arguments *)
(* drawn at Init.  SpecProb: one call of elo_probability on a rating       *)
(* differential.  SpecReplay: one run of enrich_elo, a step per row.       *)
(* SpecDraw: random_optimize drawing one configuration from the gene       *)
(* space.  Spec: random_optimize, the fitness function called in a loop.   *)
(* SpecGA: ga_optimize, the fitness function called from several threads   *)
(* at once.  SpecDorm: a DORM object and the database file it works on,    *)
(* a step per method call.  SpecGroups: groups() on the Result of a run(),  *)
(* a step per row.                                                         *)
(* Each specification leaves the variables of the others at rest.          *)
(***************************************************************************)
EXTENDS Integers, Sequences, FiniteSets, TLC

\* Number of significant bits of a float of the model (53 in CPython).
Precision == 10

Abs(n) == IF n < 0 THEN -n ELSE n

Sgn(n) == IF n < 0 THEN -1 ELSE IF n > 0 THEN 1 ELSE 0

RECURSIVE BitLen(_)
\* Number of bits of the natural number n (0 for 0).
BitLen(n) == IF n = 0 THEN 0 ELSE 1 + BitLen(n \div 2)

RECURSIVE Canon(_, _)
\* The record of m * 2^e with the trailing zero bits of m moved into e.
Canon(m, e) ==
    IF m = 0 THEN [m |-> 0, e |-> 0]
    ELSE IF m % 2 = 0 THEN Canon(m \div 2, e + 1)
    ELSE [m |-> m, e |-> e]

\* m * 2^e rounded to Precision significant bits, ties to even.
RoundME(m, e) ==
    LET a == Abs(m)
        s == BitLen(a) - Precision
    IN  IF s <= 0 THEN Canon(m, e)
        ELSE LET q    == a \div (2 ^ s)
                 r    == a % (2 ^ s)
                 half == 2 ^ (s - 1)
                 up   == r > half \/ (r = half /\ q % 2 = 1)
             IN  Canon(Sgn(m) * (IF up THEN q + 1 ELSE q), e + s)

\* float('nan'), None and -math.inf: records no rounding produces.
NaN == [m |-> 0, e |-> 1]

None == [m |-> 0, e |-> 2]

NegInf == [m |-> 0, e |-> 3]

IsFinite(x) == x.m # 0 \/ x.e = 0

IsNaN(x) == x = NaN

\* float(n) for an integer n.
FromInt(n) == RoundME(n, 0)

Zero == FromInt(0)

One == FromInt(1)

\* 2^(Top(x)-1) <= |x| < 2^Top(x) for a finite x # 0.
Top(x) == BitLen(Abs(x.m)) + x.e

FNeg(x) == IF IsFinite(x) THEN [m |-> -x.m, e |-> x.e] ELSE x

\* x + y: the exact sum, rounded.  An operand below a quarter of the other's
\* last bit cannot change the rounded sum.
FAdd(x, y) ==
    IF ~IsFinite(x) \/ ~IsFinite(y) THEN NaN
    ELSE IF x.m = 0 THEN y
    ELSE IF y.m = 0 THEN x
    ELSE IF Top(x) - Top(y) > Precision + 2 THEN x
    ELSE IF Top(y) - Top(x) > Precision + 2 THEN y
    ELSE LET e == IF x.e < y.e THEN x.e ELSE y.e
         IN  RoundME(x.m * 2 ^ (x.e - e) + y.m * 2 ^ (y.e - e), e)

FSub(x, y) == FAdd(x, FNeg(y))

FMul(x, y) ==
    IF ~IsFinite(x) \/ ~IsFinite(y) THEN NaN
    ELSE RoundME(x.m * y.m, x.e + y.e)

\* x / y for y # 0: the quotient to Precision + 2 bits and a sticky bit, rounded.
FDiv(x, y) ==
    IF ~IsFinite(x) \/ ~IsFinite(y) THEN NaN
    ELSE IF x.m = 0 THEN Zero
    ELSE LET d == Precision + 2 + BitLen(Abs(y.m)) - BitLen(Abs(x.m))
             k == IF d > 0 THEN d ELSE 0
             n == Abs(x.m) * 2 ^ k
             q == n \div Abs(y.m)
             r == n % Abs(y.m)
         IN  RoundME(Sgn(x.m) * Sgn(y.m) * (2 * q + (IF r = 0 THEN 0 ELSE 1)),
                     x.e - y.e - k - 1)

\* Comparisons; every comparison with nan is false, and -inf is below every
\* finite number.
FLt(x, y) ==
    IF x = NegInf THEN IsFinite(y)
    ELSE IsFinite(x) /\ IsFinite(y) /\ FSub(x, y).m < 0

FGt(x, y) == FLt(y, x)

FLe(x, y) == IsFinite(x) /\ IsFinite(y) /\ FSub(x, y).m <= 0

\* The float nearest to the fraction n / d (n, d small integers).
Rat(n, d) == FDiv(FromInt(n), FromInt(d))

(***************************************************************************)
(* math.pow(10, x) and math.log(n)                                         *)
(***************************************************************************)

\* A call's outcome: the value returned, or the name of the exception raised.
Ok(v) == [exc |-> "none", val |-> v]

Raise(name) == [exc |-> name, val |-> NaN]

\* 4096 * 2^(i/8) for i = 0..8, to the nearest integer.
Exp2Tab == <<4096, 4467, 4871, 5312, 5793, 6317, 6889, 7512, 8192>>

\* math.pow(10, x) as 2^n * 2^f with n + f = x * log2(10), log2(10) taken as
\* 27213/8192 and 2^f interpolated between the entries of Exp2Tab; the result
\* is rounded like every float.  As in C's pow, a result at or above 2^1024 is
\* a range error, which math.pow raises as OverflowError, and a result below
\* the smallest double is 0.0.  pow(10, 0) is exactly 1.
MathPow10(x) ==
    IF ~IsFinite(x) THEN Ok(NaN)
    ELSE IF Top(x) > 9 THEN (IF x.m > 0 THEN Raise("OverflowError") ELSE Ok(Zero))
    ELSE LET T   == x.m * 27213
             s   == 13 - x.e
             n   == IF s <= 30 THEN T \div (2 ^ s) ELSE (IF T < 0 THEN -1 ELSE 0)
             R16 == IF s > 30 THEN (IF T < 0 THEN 65535 ELSE 0)
                    ELSE IF s >= 16 THEN (T % (2 ^ s)) \div (2 ^ (s - 16))
                    ELSE (T % (2 ^ s)) * 2 ^ (16 - s)
             g   == R16 \div 8192
             fr  == R16 % 8192
             sig == Exp2Tab[g + 1] * 8192 + (Exp2Tab[g + 2] - Exp2Tab[g + 1]) * fr
         IN  IF n >= 1024 THEN Raise("OverflowError")
             ELSE IF n < -1075 THEN Ok(Zero)
             ELSE Ok(RoundME(sig, n - 25))

\* 2^20 * ln(i) for i = 1..8, to the nearest integer.
LnTab == <<0, 726817, 1151978, 1453635, 1687618, 1878796, 2040435, 2180452>>

\* The integer a finite integer-valued float stands for.
IntOf(x) == x.m * 2 ^ x.e

\* math.log(x) for the integer-valued margins 1..8 of the model.
MathLog(x) == IF IsNaN(x) THEN NaN ELSE RoundME(LnTab[IntOf(x)], -20)

(***************************************************************************)
(* hyperparams.py: the twelve hyperparameters, by index.                   *)
(***************************************************************************)
start == 0

elo_avg == 1

revert == 2

rest_mul == 3

hfa_mod == 4

k_start == 5

k_end == 6

k_rate == 7

ac_mul == 8

ac_mod == 9

mov_mul == 10

mov_mod == 11

Params == 0 .. 11

\* A configuration is a dict keyed by hyperparameter (kind "dict": v is a
\* function on the keys present) or an index-ordered vector of twelve values
\* (kind "vec": v is a function on 0..11), as pygad hands it to the fitness
\* function.
Dict(f) == [kind |-> "dict", v |-> f]

Vec(f) == [kind |-> "vec", v |-> f]

\* `p in cfg`: key membership for a dict; for a tuple or array, Python's `in`
\* asks whether some ELEMENT equals p (an IntEnum, so the integer p).
Has(cfg, p) ==
    IF cfg.kind = "dict" THEN p \in DOMAIN cfg.v
    ELSE \E i \in DOMAIN cfg.v : cfg.v[i] = FromInt(p)

\* `cfg[p]` raises KeyError for a dict without the key p.
Missing(cfg, p) == p \notin DOMAIN cfg.v

Get(cfg, p) == cfg.v[p]

(***************************************************************************)
(* elo.py                                                                  *)
(***************************************************************************)

\* elo_probability(rating_diff) = 1.0 / (math.pow(10, (-rating_diff / 400)) + 1)
elo_probability(rating_diff) ==
    LET pw == MathPow10(FDiv(FNeg(rating_diff), FromInt(400)))
    IN  IF pw.exc # "none" THEN pw
        ELSE Ok(FDiv(One, FAdd(pw.val, One)))

\* A variant of shift_elo_pre that weighs the existing rating by revert instead
\* of 1 - revert serves as a mutant.
ShiftEloPreWrongWeight(elo_pre, n, cfg) ==
    IF n = None THEN Raise("TypeError")
    ELSE IF FGt(n, Zero) THEN Ok(Zero)
    ELSE IF ~Has(cfg, elo_avg) THEN Ok(FSub(elo_pre, elo_pre))
    ELSE IF Missing(cfg, revert) THEN Raise("KeyError")
    ELSE Ok(FSub(FAdd(FMul(Get(cfg, elo_avg), Get(cfg, revert)),
                      FMul(elo_pre, Get(cfg, revert))), elo_pre))

\* shift_elo_pre(elo_pre, n, cfg).  `n > 0` is evaluated before `n is None`,
\* and None > 0 is a TypeError; nan > 0 is False.
shift_elo_pre(elo_pre, n, cfg) ==
    IF n = None THEN Raise("TypeError")
    ELSE IF FGt(n, Zero) THEN Ok(Zero)
    ELSE IF ~Has(cfg, elo_avg) THEN Ok(FSub(elo_pre, elo_pre))
    ELSE IF Missing(cfg, revert) THEN Raise("KeyError")
    ELSE LET reverted_elo == FMul(Get(cfg, elo_avg), Get(cfg, revert))
             existing_elo == FMul(elo_pre, FSub(One, Get(cfg, revert)))
             elo_post     == FAdd(reverted_elo, existing_elo)
         IN  Ok(FSub(elo_post, elo_pre))

\* calc_pre_diff(elo_pre1, elo_pre2, rest1, rest2, is_neutral, cfg)
CalcPreDiffAlwaysHome(elo_pre1, elo_pre2, rest1, rest2, is_neutral, cfg) ==
    LET d1 == IF Has(cfg, hfa_mod)
              THEN FAdd(FSub(elo_pre1, elo_pre2), Get(cfg, hfa_mod))
              ELSE FSub(elo_pre1, elo_pre2)
    IN  IF Has(cfg, rest_mul)
        THEN FAdd(d1, FMul(Get(cfg, rest_mul), FSub(rest1, rest2)))
        ELSE d1

calc_pre_diff(elo_pre1, elo_pre2, rest1, rest2, is_neutral, cfg) ==
    LET d0 == FSub(elo_pre1, elo_pre2)
        d1 == IF ~is_neutral /\ Has(cfg, hfa_mod)
              THEN FAdd(d0, Get(cfg, hfa_mod)) ELSE d0
    IN  IF Has(cfg, rest_mul)
        THEN FAdd(d1, FMul(Get(cfg, rest_mul), FSub(rest1, rest2)))
        ELSE d1

\* max(abs(mov), 1): Python's max keeps its first argument unless the second
\* is greater.
AbsMov(mov) ==
    LET a == IF mov.m < 0 THEN FNeg(mov) ELSE mov
    IN  IF FGt(One, a) THEN One ELSE a

\* The K-factor of shift_elo_post (lines 184-187): cfg[k_start], or cfg[k_end]
\* once the mean number of games played exceeds cfg[k_rate].  cfg[k_end] is
\* looked up only in that case.
KFactorStrict(n1, n2, cfg) ==
    IF Missing(cfg, k_start) THEN Raise("KeyError")
    ELSE IF ~Has(cfg, k_rate) THEN Ok(Get(cfg, k_start))
    ELSE IF n1 = None \/ n2 = None THEN Raise("TypeError")
    ELSE IF FLt(FDiv(FAdd(n1, n2), FromInt(2)), Get(cfg, k_rate))
         THEN Ok(Get(cfg, k_start))
    ELSE IF Missing(cfg, k_end) THEN Raise("KeyError")
    ELSE Ok(Get(cfg, k_end))

KFactor(n1, n2, cfg) ==
    IF Missing(cfg, k_start) THEN Raise("KeyError")
    ELSE IF ~Has(cfg, k_rate) THEN Ok(Get(cfg, k_start))
    ELSE IF n1 = None \/ n2 = None THEN Raise("TypeError")
    ELSE LET n_adj == FDiv(FAdd(n1, n2), FromInt(2))
         IN  IF FLe(n_adj, Get(cfg, k_rate)) THEN Ok(Get(cfg, k_start))
             ELSE IF Missing(cfg, k_end) THEN Raise("KeyError")
             ELSE Ok(Get(cfg, k_end))

\* shift_elo_post(rating_diff, mov, n1, n2, cfg) with ac_mov_log = True, the
\* default and the only mode calc_elo uses.  The statements run in the order
\* of the source, so the first one that raises decides the exception.
shift_elo_post(rating_diff, mov, n1, n2, cfg) ==
    LET winner_r_diff == IF FGt(mov, Zero) THEN rating_diff
                         ELSE IF mov = Zero THEN Zero
                         ELSE FNeg(rating_diff)
        denom    == FAdd(FMul(winner_r_diff, Get(cfg, ac_mul)), Get(cfg, ac_mod))
        ac_adj   == IF Has(cfg, ac_mod) THEN FDiv(Get(cfg, ac_mod), denom) ELSE One
        mov_mult == IF Has(cfg, mov_mul)
                    THEN FAdd(FMul(Get(cfg, mov_mul), MathLog(AbsMov(mov))),
                              Get(cfg, mov_mod))
                    ELSE One
        win_prob1 == elo_probability(rating_diff)
        win1      == IF FGt(mov, Zero) THEN One ELSE Zero
        expectation_adj == FSub(win1, win_prob1.val)
        k == KFactor(n1, n2, cfg)
    IN  IF Has(cfg, ac_mod) /\ Missing(cfg, ac_mul) THEN Raise("KeyError")
        ELSE IF Has(cfg, ac_mod) /\ denom = Zero THEN Raise("ZeroDivisionError")
        ELSE IF Has(cfg, mov_mul) /\ Missing(cfg, mov_mod) THEN Raise("KeyError")
        ELSE IF win_prob1.exc # "none" THEN win_prob1
        ELSE IF k.exc # "none" THEN k
        ELSE Ok(FMul(FMul(FMul(k.val, expectation_adj), mov_mult), ac_adj))

\* `if mov and not math.isnan(mov)` (calc_elo, line 249): the match has a
\* result.  A variant that forgets the nan test serves as a mutant.
HasResultNoNaNTest(mov) == mov # Zero

HasResult(mov) == mov # Zero /\ ~IsNaN(mov)

\* elo_post1 = elo_pre1 + post_shift and elo_post2 = elo_pre2 - post_shift
\* (calc_elo, lines 252-253).  A variant that adds the shift to both sides
\* serves as a mutant.
EloPost1(elo_pre1, post_shift) == FAdd(elo_pre1, post_shift)

EloPost2SameSign(elo_pre2, post_shift) == FAdd(elo_pre2, post_shift)

EloPost2(elo_pre2, post_shift) == FSub(elo_pre2, post_shift)

\* What calc_elo returns, or the exception it raises.
EloResult(exc, pre1, pre2, post1, post2, prob1) ==
    [exc |-> exc, elo_pre1 |-> pre1, elo_pre2 |-> pre2,
     elo_post1 |-> post1, elo_post2 |-> post2, elo_prob1 |-> prob1]

EloRaise(name) == EloResult(name, NaN, NaN, NaN, NaN, NaN)

\* calc_elo(cfg, elo_pre1, elo_pre2, mov, n1, n2, rest1, rest2, neutral)
calc_elo(cfg, elo_pre1, elo_pre2, mov, n1, n2, rest1, rest2, neutral) ==
    LET s1   == shift_elo_pre(elo_pre1, n1, cfg)
        pre1 == FAdd(elo_pre1, s1.val)
        s2   == shift_elo_pre(elo_pre2, n2, cfg)
        pre2 == FAdd(elo_pre2, s2.val)
        pre_diff == calc_pre_diff(pre1, pre2, rest1, rest2, neutral, cfg)
        post == IF HasResult(mov)
                THEN shift_elo_post(pre_diff, mov, n1, n2, cfg)
                ELSE Ok(Zero)
        prob == elo_probability(pre_diff)
    IN  IF s1.exc # "none" THEN EloRaise(s1.exc)
        ELSE IF s2.exc # "none" THEN EloRaise(s2.exc)
        ELSE IF post.exc # "none" THEN EloRaise(post.exc)
        ELSE IF prob.exc # "none" THEN EloRaise(prob.exc)
        ELSE EloResult("none", pre1, pre2,
                       EloPost1(pre1, post.val), EloPost2(pre2, post.val),
                       prob.val)

(***************************************************************************)
(* optimizer.py: the season replay                                         *)
(***************************************************************************)

\* A row of the DataFrame: the nine columns enrich_elo reads and the outcome
\* column win1 the fitness function scores against.
Row(team1, team2, score1, score2, played1, played2, rest1, rest2, neutral) ==
    [team1 |-> team1, team2 |-> team2, score1 |-> score1, score2 |-> score2,
     played1 |-> played1, played2 |-> played2, rest1 |-> rest1, rest2 |-> rest2,
     neutral |-> neutral,
     win1 |-> IF FGt(score1, score2) THEN One ELSE Zero]

\* pandas.concat([df['fr_team1'], df['fr_team2']]).unique()
AllTeams(df) ==
    {df[i].team1 : i \in 1 .. Len(df)} \cup {df[i].team2 : i \in 1 .. Len(df)}

\* INIT TEAMS (enrich_elo, lines 199-202): every team at cfg[Params.start];
\* the key is looked up once per team, so not at all for an empty frame.
InitTeams(df, cfg) ==
    IF AllTeams(df) # {} /\ Missing(cfg, start)
    THEN [exc |-> "KeyError", team_elos |-> <<>>]
    ELSE [exc |-> "none",
          team_elos |-> [t \in AllTeams(df) |-> Get(cfg, start)]]

\* The two assignments of the closure (lines 173-174), team1 first, then
\* team2.  A variant that stores the two post-match ratings crosswise serves
\* as a mutant.
StorePostCrossed(team_elos, vals, r) ==
    [[team_elos EXCEPT ![vals.team1] = r.elo_post2]
        EXCEPT ![vals.team2] = r.elo_post1]

\* Another variant, which stores the rating of team1 alone.
StorePostFirstOnly(team_elos, vals, r) ==
    [team_elos EXCEPT ![vals.team1] = r.elo_post1]

StorePost(team_elos, vals, r) ==
    [[team_elos EXCEPT ![vals.team1] = r.elo_post1]
        EXCEPT ![vals.team2] = r.elo_post2]

\* The closure after calc_elo (lines 173-175): r is returned and the ratings
\* are stored, unless calc_elo raised.
Stored(team_elos, vals, r) ==
    [r |-> r,
     team_elos |-> IF r.exc = "none" THEN StorePost(team_elos, vals, r)
                   ELSE team_elos]

\* One call of the closure stateful_enricher returns (lines 168-175): the
\* result r of calc_elo and the ratings after it.
wrapped(team_elos, vals, cfg) ==
    Stored(team_elos, vals,
           calc_elo(cfg, team_elos[vals.team1], team_elos[vals.team2],
                    FSub(vals.score1, vals.score2), vals.played1,
                    vals.played2, vals.rest1, vals.rest2, vals.neutral))

\* The padding row of zeros (line 211), which itertools.accumulate hands back
\* as its first item without calling the closure.
Bogey == EloResult("bogey", Zero, Zero, Zero, Zero, Zero)

\* list(results)[1:] (line 216): the items without the padding row.
DropBogey(items) == Tail(items)

RECURSIVE Accumulate(_, _, _, _)
\* itertools.accumulate over the rows from position i on: state holds the
\* ratings and the items so far, or the exception that ended the run.
Accumulate(state, df, i, cfg) ==
    IF state.exc # "none" \/ i > Len(df) THEN state
    ELSE Accumulate(
             CHOOSE next \in
                 {IF w.r.exc # "none"
                  THEN [exc |-> w.r.exc, results |-> <<>>,
                        team_elos |-> state.team_elos]
                  ELSE [exc |-> "none", results |-> Append(state.results, w.r),
                        team_elos |-> w.team_elos] :
                  w \in {wrapped(state.team_elos, df[i], cfg)}} : TRUE,
             df, i + 1, cfg)

\* The value of enrich_elo once accumulate has run (lines 216-218).
Enriched(state) ==
    IF state.exc # "none" THEN state
    ELSE [state EXCEPT !.results = DropBogey(@)]

\* enrich_elo(df, cfg): the results, one per row, or the exception raised.
enrich_elo(df, cfg) ==
    Enriched(Accumulate([exc |-> InitTeams(df, cfg).exc,
                         results |-> IF InitTeams(df, cfg).exc = "none"
                                     THEN <<Bogey>> ELSE <<>>,
                         team_elos |-> InitTeams(df, cfg).team_elos],
                        df, 1, cfg))

\* A variant of the loop body that puts r in front of the results serves as a
\* mutant.
VecPrepended(state, vals, r) ==
    IF r.exc # "none"
    THEN [exc |-> r.exc, results |-> <<>>, team_elos |-> state.team_elos]
    ELSE [exc |-> "none",
          results |-> <<r>> \o state.results,
          team_elos |-> (vals.team2 :> r.elo_post2) @@
                        (vals.team1 :> r.elo_post1) @@ state.team_elos]

\* The body of the loop of enrich_elo_vec (lines 156-161) once calc_elo has
\* returned r for the row vals: an exception leaves the function; otherwise
\* team1's rating is stored, then team2's, and r is appended to the results.
VecAppended(state, vals, r) ==
    IF r.exc # "none"
    THEN [exc |-> r.exc, results |-> <<>>, team_elos |-> state.team_elos]
    ELSE [exc |-> "none",
          results |-> state.results \o <<r>>,
          team_elos |-> (vals.team2 :> r.elo_post2) @@
                        (vals.team1 :> r.elo_post1) @@ state.team_elos]

RECURSIVE VecLoop(_, _, _, _)
\* `for vals in values` (lines 155-161), from the row at position i on.
VecLoop(state, df, i, cfg) ==
    IF state.exc # "none" \/ i > Len(df) THEN state
    ELSE VecLoop(
             CHOOSE next \in
                 {VecAppended(state, df[i], r) :
                  r \in {calc_elo(cfg, state.team_elos[df[i].team1],
                                  state.team_elos[df[i].team2],
                                  FSub(df[i].score1, df[i].score2),
                                  df[i].played1, df[i].played2,
                                  df[i].rest1, df[i].rest2,
                                  df[i].neutral)}} : TRUE,
             df, i + 1, cfg)

\* enrich_elo_vec(df, cfg) (lines 134-162): the teams are initialised as in
\* enrich_elo, the results start empty (line 146) and the loop runs over the
\* rows as they are.
enrich_elo_vec(df, cfg) ==
    VecLoop([exc |-> InitTeams(df, cfg).exc,
             results |-> <<>>,
             team_elos |-> InitTeams(df, cfg).team_elos],
            df, 1, cfg)

(***************************************************************************)
(* optimizer.py: the fitness function                                      *)
(***************************************************************************)

RECURSIVE SumOf(_, _)
\* The sum of the first n numbers of xs, added left to right.
SumOf(xs, n) == IF n = 0 THEN Zero ELSE FAdd(SumOf(xs, n - 1), xs[n])

Sq(x) == FMul(x, x)

\* metrics.r2_score(y_true, y_pred) (line 250) for the case the frames here
\* are in, at least two rows and both outcomes among them:
\* 1 - sum((y_true - y_pred)^2) / sum((y_true - mean(y_true))^2).
r2_score(y_true, y_pred) ==
    LET n     == Len(y_true)
        mean  == FDiv(SumOf(y_true, n), FromInt(n))
        numer == SumOf([i \in 1 .. n |-> Sq(FSub(y_true[i], y_pred[i]))], n)
        denom == SumOf([i \in 1 .. n |-> Sq(FSub(y_true[i], mean))], n)
    IN  FSub(One, FDiv(numer, denom))

\* elo_prob1.round() (line 251): to the nearest integer, one half to zero.
Rounded(prob) == IF FGt(prob, Rat(1, 2)) THEN One ELSE Zero

\* metrics.accuracy_score(y_true, predicted) (line 257)
accuracy_score(y_true, predicted) ==
    Rat(Cardinality({i \in 1 .. Len(y_true) : y_true[i] = predicted[i]}),
        Len(y_true))

\* The dict scores of lines 253-258.  Its entry 'll', the log loss of the
\* same two arrays, is a diagnostic nothing reads back and is left out.
Scores(df, results) ==
    LET y_true    == [i \in 1 .. Len(df) |-> df[i].win1]
        elo_prob1 == [i \in 1 .. Len(results) |-> results[i].elo_prob1]
        predicted == [i \in 1 .. Len(results) |-> Rounded(elo_prob1[i])]
        r2        == r2_score(y_true, elo_prob1)
    IN  [score |-> r2, r2 |-> r2, ac |-> accuracy_score(y_true, predicted)]

\* `if score > model._best['score']` (line 252).  A variant that also takes
\* an equal score serves as a mutant.
ImprovesOrTies(score, best) == ~FLt(score, best.score) /\ ~IsNaN(score)

Improves(score, best) == FGt(score, best.score)

\* tuple_to_dict(solution, model._genes) (lines 84-86): solution[i] for each
\* of the twelve genes in turn, so a KeyError for a dict that lacks one.
tuple_to_dict(solution) ==
    IF \E p \in Params : Missing(solution, p)
    THEN [exc |-> "KeyError", config |-> Dict(<<>>)]
    ELSE [exc |-> "none", config |-> Dict([p \in Params |-> Get(solution, p)])]

\* ModelMeta.__init__ (lines 125-131) and the attributes ga_optimize sets on
\* the pygad.GA instance (lines 345-349), which leave _best_config unset.
NoConfig == [kind |-> "None", v |-> <<>>]

Unset == [kind |-> "unset", v |-> <<>>]

ModelMeta(best_config) ==
    [i |-> 0, valid |-> 0, best |-> [score |-> NegInf],
     best_config |-> best_config]

\* `except OverflowError: return -math.inf` (lines 245-246) leaves with the
\* model as it is.  A variant that counts the evaluation as valid first
\* serves as a mutant.
RecoveredCountsValid(model) == [model EXCEPT !.valid = @ + 1]

Recovered(model) == model

\* fitness_func(model, solution) (lines 240-263) run without interruption:
\* the model after the call, what the call returns and the exception that
\* leaves it.  Only OverflowError is caught.
\* Lines 252-263, from the comparison on: model is the object after
\* `model._valid += 1` and scores the scores of this solution.
RecordBest(model, solution, scores) ==
    LET better == [model EXCEPT !.best = scores]
        config == tuple_to_dict(solution)
    IN  IF ~Improves(scores.score, model.best)
        THEN [model |-> model, exc |-> "none", ret |-> scores.score]
        ELSE IF config.exc # "none"
        THEN [model |-> better, exc |-> config.exc, ret |-> NaN]
        ELSE [model |-> [better EXCEPT !.best_config = config.config],
              exc |-> "none", ret |-> scores.score]

\* Lines 243-263, from the try block on: counted is the object after
\* `model._i += 1` and out the outcome of the forecaster.
AfterForecast(counted, solution, df, out) ==
    IF out.exc = "OverflowError"
    THEN [model |-> Recovered(counted), exc |-> "none", ret |-> NegInf]
    ELSE IF out.exc # "none"
    THEN [model |-> counted, exc |-> out.exc, ret |-> NaN]
    ELSE CHOOSE f \in {RecordBest([counted EXCEPT !.valid = @ + 1],
                                  solution, scores) :
                       scores \in {Scores(df, out.results)}} : TRUE

\* fitness_func(model, solution) (lines 240-263) run without interruption:
\* the model after the call, what the call returns and the exception that
\* leaves it.  Only OverflowError is caught.
fitness_func(model, solution, df) ==
    CHOOSE f \in {AfterForecast([model EXCEPT !.i = @ + 1], solution, df, out) :
                  out \in {enrich_elo(df, solution)}} : TRUE

(***************************************************************************)
(* State                                                                   *)
(***************************************************************************)
VARIABLES
    \* one call of a function of elo.py: its arguments, its name, its outcome
    args, call, ret,
    \* one run of enrich_elo: the frame and configuration it was called with,
    \* the ratings, the items accumulated so far, the next row, where the run
    \* stands, and the ratings each call of calc_elo was handed
    rdf, rcfg, team_elos, results, rpos, rstatus, passed,
    \* the object the fitness function works on: _data, _i, _valid, _best and
    \* _best_config
    m_data, m_i, m_valid, m_best, m_best_config,
    \* random_optimize: its loop counter, where it stands, and the solution,
    \* return value and exception of the latest call of the fitness function
    gen, ostatus, fit,
    \* the worker threads of the generational search: where each stands in
    \* the fitness function, its solution and its local variables
    pc, tsol, loc,
    \* the start of random_optimize: the list spaces, the configuration being
    \* drawn from it, and where this stands
    spaces, drawn, dstatus,
    \* a DORM object: its persistent connection, its table, the columns of
    \* the latest create(), and its clauses (the keys of each dict in
    \* insertion order; _order with the direction of each key; _limit empty
    \* for None)
    _conn, _table, _cols, _select, _where, _group, _having, _order, _limit,
    \* the sqlite connections that are open, the tables of the database file,
    \* and the latest DORM method called with the SQL statement it issued and
    \* its outcome
    conns, db, op, query, outcome,
    \* a Result of run(): the rows fetched, the format of its items, the
    \* number of rows its iterator has handed out, the dict groups() builds
    \* from them, and where groups() stands
    result, _fmt, _result, grouped, gstatus

fnVars == <<args, call, ret>>

replayVars == <<rdf, rcfg, team_elos, results, rpos, rstatus, passed>>

modelVars == <<m_data, m_i, m_valid, m_best, m_best_config>>

loopVars == <<gen, ostatus, fit>>

threadVars == <<pc, tsol, loc>>

drawVars == <<spaces, drawn, dstatus>>

dormVars == <<_conn, _table, _cols, _select, _where, _group, _having, _order,
              _limit, conns, db, op, query, outcome>>

resultVars == <<result, _fmt, _result, grouped, gstatus>>

vars == <<fnVars, replayVars, modelVars, loopVars, threadVars, drawVars, dormVars,
          resultVars>>

\* The variables of a part of the program that is not running.
FnIdle == args = <<>> /\ call = "idle" /\ ret = Ok(NaN)

ReplayIdle ==
    /\ rdf = <<>> /\ rcfg = Dict(<<>>) /\ team_elos = <<>> /\ results = <<>>
    /\ rpos = 0 /\ rstatus = "idle" /\ passed = <<>>

ModelIdle ==
    /\ m_data = <<>> /\ m_i = 0 /\ m_valid = 0 /\ m_best = [score |-> NegInf]
    /\ m_best_config = NoConfig

NoCall == [solution |-> Dict(<<>>), exc |-> "none", ret |-> NaN]

LoopIdle == gen = 0 /\ ostatus = "idle" /\ fit = NoCall

ThreadsIdle == pc = <<>> /\ tsol = <<>> /\ loc = <<>>

DrawIdle == spaces = <<>> /\ drawn = <<>> /\ dstatus = "idle"

ResultIdle ==
    /\ result = <<>> /\ _fmt = "None" /\ _result = 0 /\ grouped = <<>>
    /\ gstatus = "idle"

DormIdle ==
    /\ _conn = 0 /\ _table = "" /\ _cols = <<>>
    /\ _select = <<>> /\ _where = <<>> /\ _group = <<>> /\ _having = <<>>
    /\ _order = <<>> /\ _limit = <<>>
    /\ conns = {} /\ db = {} /\ op = "idle" /\ query = "" /\ outcome = ""

(***************************************************************************)
(* SpecElo: the functions of elo.py, each applied once to arguments drawn  *)
(* from the sets below.                                                    *)
(***************************************************************************)

\* Configurations (dicts) the functions are called with.
CfgEmpty == Dict(<<>>)

CfgK == Dict(k_start :> FromInt(10))

CfgRevert == Dict((elo_avg :> FromInt(1000)) @@ (revert :> Rat(1, 4)))

CfgAvgOnly == Dict((k_start :> FromInt(10)) @@ (elo_avg :> FromInt(1000)))

CfgRevOnly == Dict(revert :> Rat(1, 2))

CfgAc == Dict((k_start :> FromInt(10)) @@ (ac_mod :> Rat(7, 2)) @@
              (ac_mul :> Rat(1, 128)))

CfgAll == Dict((start :> FromInt(1000)) @@ (elo_avg :> FromInt(1500)) @@
               (revert :> Rat(1, 4)) @@ (rest_mul :> FromInt(25)) @@
               (hfa_mod :> FromInt(50)) @@ (k_start :> FromInt(20)) @@
               (k_end :> FromInt(10)) @@ (k_rate :> FromInt(4)) @@
               (ac_mul :> Rat(1, 128)) @@ (ac_mod :> Rat(7, 2)) @@
               (mov_mul :> Rat(1, 2)) @@ (mov_mod :> One))

\* The configuration of test_calc_pre_diff (tests.py, line 26), and one with
\* the home field advantage alone.
CfgHfaRest == Dict((hfa_mod :> FromInt(10)) @@ (rest_mul :> FromInt(5)))

CfgHfaOnly == Dict((k_start :> FromInt(10)) @@ (hfa_mod :> FromInt(10)))

\* Configurations with a K-factor that changes once the mean number of games
\* played exceeds k_rate.
CfgKRate1 == Dict((k_start :> FromInt(20)) @@ (k_end :> FromInt(10)) @@
                  (k_rate :> One))

CfgKRate4 == Dict((k_start :> FromInt(20)) @@ (k_end :> FromInt(10)) @@
                  (k_rate :> FromInt(4)))

EloCfgs == {CfgEmpty, CfgK, CfgRevert, CfgAvgOnly, CfgRevOnly, CfgAc, CfgAll,
            CfgHfaRest, CfgHfaOnly, CfgKRate1, CfgKRate4}

EloRatings1 == {FromInt(1000), FromInt(1500), FromInt(552)}

EloRatings2 == {FromInt(1000), FromInt(1500)}

EloMargins == {FromInt(-3), Zero, FromInt(2), NaN}

EloPlayed1 == {Zero, FromInt(2), NaN, None}

EloPlayed2 == {Zero, FromInt(9)}

EloRests == {<<Zero, Zero>>, <<FromInt(2), FromInt(5)>>, <<Zero, FromInt(5000)>>}

InitElo ==
    /\ args \in [cfg : EloCfgs, elo_pre1 : EloRatings1, elo_pre2 : EloRatings2,
                 mov : EloMargins, n1 : EloPlayed1, n2 : EloPlayed2,
                 rest : EloRests, neutral : BOOLEAN]
    /\ call = "none"
    /\ ret = Ok(NaN)
    /\ ReplayIdle /\ ModelIdle /\ LoopIdle /\ ThreadsIdle /\ DrawIdle /\ DormIdle /\ ResultIdle

CallProbability ==
    /\ call = "none"
    /\ call' = "elo_probability"
    /\ ret' = elo_probability(FSub(args.elo_pre1, args.elo_pre2))
    /\ UNCHANGED <<args, replayVars, modelVars, loopVars, threadVars, drawVars, dormVars, resultVars>>

CallShiftPre ==
    /\ call = "none"
    /\ call' = "shift_elo_pre"
    /\ ret' = shift_elo_pre(args.elo_pre1, args.n1, args.cfg)
    /\ UNCHANGED <<args, replayVars, modelVars, loopVars, threadVars, drawVars, dormVars, resultVars>>

CallPreDiff ==
    /\ call = "none"
    /\ call' = "calc_pre_diff"
    /\ ret' = Ok(calc_pre_diff(args.elo_pre1, args.elo_pre2, args.rest[1],
                               args.rest[2], args.neutral, args.cfg))
    /\ UNCHANGED <<args, replayVars, modelVars, loopVars, threadVars, drawVars, dormVars, resultVars>>

CallShiftPost ==
    /\ call = "none"
    /\ call' = "shift_elo_post"
    /\ ret' = shift_elo_post(FSub(args.elo_pre1, args.elo_pre2), args.mov,
                             args.n1, args.n2, args.cfg)
    /\ UNCHANGED <<args, replayVars, modelVars, loopVars, threadVars, drawVars, dormVars, resultVars>>

CallCalcElo ==
    /\ call = "none"
    /\ call' = "calc_elo"
    /\ ret' = calc_elo(args.cfg, args.elo_pre1, args.elo_pre2, args.mov,
                       args.n1, args.n2, args.rest[1], args.rest[2],
                       args.neutral)
    /\ UNCHANGED <<args, replayVars, modelVars, loopVars, threadVars, drawVars, dormVars, resultVars>>

NextElo ==
    \/ CallProbability
    \/ CallShiftPre
    \/ CallPreDiff
    \/ CallShiftPost
    \/ CallCalcElo

SpecElo == InitElo /\ [][NextElo]_vars

(***************************************************************************)
(* SpecProb: one call of elo_probability on the differential of two        *)
(* ratings, from even sides to differentials far beyond any real rating.   *)
(***************************************************************************)
ProbRatings1 == {FromInt(n) : n \in {0, 1, 100, 200, 400, 800, 1000, 1500,
                                      6400, 20000, 131072}}

ProbRatings2 == {FromInt(n) : n \in {0, 100, 400, 1000, 6400, 131072}}

InitProb ==
    /\ args \in [cfg : {CfgEmpty}, elo_pre1 : ProbRatings1, elo_pre2 : ProbRatings2,
                 mov : {Zero}, n1 : {Zero}, n2 : {Zero},
                 rest : {<<Zero, Zero>>}, neutral : {FALSE}]
    /\ call = "none"
    /\ ret = Ok(NaN)
    /\ ReplayIdle /\ ModelIdle /\ LoopIdle /\ ThreadsIdle /\ DrawIdle /\ DormIdle /\ ResultIdle

NextProb == CallProbability

SpecProb == InitProb /\ [][NextProb]_vars

(***************************************************************************)
(* SpecReplay: one run of enrich_elo, a step per call of the closure.      *)
(***************************************************************************)
MaxRows == 3

\* Rows of a frame: a home win between two new teams, a tie, an away win on
\* neutral ground, a match not yet played (scores NaN), a long rest on one
\* side, and a row that names the same team on both sides.
RowHomeWin == Row("A", "B", FromInt(3), One, Zero, Zero, Zero, Zero, FALSE)

RowTie == Row("B", "C", One, One, One, Zero, FromInt(2), FromInt(5), FALSE)

RowAwayWin == Row("C", "A", Zero, FromInt(2), One, One, FromInt(3), One, TRUE)

RowUnplayed == Row("B", "A", NaN, NaN, FromInt(2), FromInt(2), One, One, FALSE)

RowLongRest == Row("A", "C", One, Zero, Zero, Zero, Zero, FromInt(5000), FALSE)

RowSelf == Row("A", "A", FromInt(2), Zero, Zero, Zero, Zero, Zero, FALSE)

ReplayRows == {RowHomeWin, RowTie, RowAwayWin, RowUnplayed, RowLongRest, RowSelf}

RECURSIVE Frames(_, _)
\* The frames of at most n rows drawn from rows.
Frames(rows, n) ==
    IF n = 0 THEN {<<>>}
    ELSE LET shorter == Frames(rows, n - 1)
         IN  shorter \cup {Append(f, r) : f \in shorter, r \in rows}

CfgStartOnly == Dict(start :> FromInt(1000))

CfgStartK == Dict((start :> FromInt(1000)) @@ (k_start :> FromInt(10)))

CfgStartAvg == Dict((start :> FromInt(1200)) @@ (k_start :> FromInt(10)) @@
                    (elo_avg :> FromInt(1000)))

\* A start next to 1024, where the spacing of the floats changes.
CfgStartHigh == Dict((start :> FromInt(1020)) @@ (k_start :> FromInt(10)))

\* The values of CfgAll as a vector ordered by gene index, the form in which
\* pygad hands a solution to the fitness function.
CfgVecAll == Vec([p \in Params |-> Get(CfgAll, p)])

ReplayCfgs == {CfgK, CfgStartOnly, CfgStartK, CfgStartAvg, CfgStartHigh, CfgAll,
               CfgVecAll}

InitReplay ==
    /\ rdf \in Frames(ReplayRows, MaxRows)
    /\ rcfg \in ReplayCfgs
    /\ team_elos = <<>>
    /\ results = <<>>
    /\ rpos = 0
    /\ rstatus = "called"
    /\ passed = <<>>
    /\ FnIdle /\ ModelIdle /\ LoopIdle /\ ThreadsIdle /\ DrawIdle /\ DormIdle /\ ResultIdle

\* enrich_elo up to the first call of the closure (lines 198-215): the teams
\* are set to cfg[Params.start] and accumulate yields the padding row.
ReplayInitTeams ==
    /\ rstatus = "called"
    /\ LET t == InitTeams(rdf, rcfg)
       IN  IF t.exc # "none"
           THEN /\ rstatus' = t.exc
                /\ UNCHANGED <<team_elos, results, rpos>>
           ELSE /\ team_elos' = t.team_elos
                /\ results' = <<Bogey>>
                /\ rpos' = 1
                /\ rstatus' = "running"
    /\ UNCHANGED <<rdf, rcfg, passed, fnVars, modelVars, loopVars, threadVars, drawVars, dormVars, resultVars>>

\* One call of the closure by accumulate (lines 168-175).  An exception of
\* calc_elo leaves enrich_elo; the ratings are stored only after it returned.
ReplayStep ==
    /\ rstatus = "running"
    /\ rpos <= Len(rdf)
    /\ \E w \in {wrapped(team_elos, rdf[rpos], rcfg)} :
           /\ passed' = Append(passed, <<team_elos[rdf[rpos].team1],
                                         team_elos[rdf[rpos].team2]>>)
           /\ IF w.r.exc # "none"
              THEN /\ rstatus' = w.r.exc
                   /\ UNCHANGED <<team_elos, results, rpos>>
              ELSE /\ team_elos' = w.team_elos
                   /\ results' = Append(results, w.r)
                   /\ rpos' = rpos + 1
                   /\ UNCHANGED rstatus
    /\ UNCHANGED <<rdf, rcfg, fnVars, modelVars, loopVars, threadVars, drawVars, dormVars, resultVars>>

\* The rows are used up: the padding row is dropped and the array returned
\* (lines 216-218).
ReplayReturn ==
    /\ rstatus = "running"
    /\ rpos > Len(rdf)
    /\ results' = DropBogey(results)
    /\ rstatus' = "done"
    /\ UNCHANGED <<rdf, rcfg, team_elos, rpos, passed, fnVars, modelVars,
                   loopVars, threadVars, drawVars, dormVars, resultVars>>

NextReplay ==
    \/ ReplayInitTeams
    \/ ReplayStep
    \/ ReplayReturn

SpecReplay == InitReplay /\ [][NextReplay]_vars

(***************************************************************************)
(* Spec: random_optimize, one call of the fitness function after another.  *)
(***************************************************************************)
NumGens == 3

RowShortRest == Row("A", "B", FromInt(2), Zero, Zero, Zero, FromInt(28), Zero,
                    FALSE)

\* Frames with both outcomes in the column win1.
OptFrames ==
    {<<RowHomeWin, RowAwayWin>>,
     <<RowHomeWin, RowTie, RowAwayWin>>,
     <<RowHomeWin, RowLongRest, RowAwayWin>>,
     <<RowShortRest, RowAwayWin>>}

\* Candidates with all twelve genes, as random_optimize draws them (line
\* 297); the values are Python numbers.  CandKEnd differs from CandBase in
\* a gene no row of the frames reads, CandLongRest (rest_mul 24.75, the
\* last of its list) overflows on a rest of 5000 days, and CandZeroDiv has
\* winner_diff * ac_mul + ac_mod = 0 for a home win at a pre-match
\* difference of -448.  ac_mul is 1/128, the binary fraction next to the
\* 0.008 of its list, so that this product is exact at every Precision.
CandBase == Dict((start :> FromInt(1000)) @@ (elo_avg :> FromInt(1000)) @@
                 (revert :> Rat(1, 4)) @@ (rest_mul :> Rat(1, 4)) @@
                 (hfa_mod :> FromInt(50)) @@ (k_start :> FromInt(20)) @@
                 (k_end :> FromInt(10)) @@ (k_rate :> FromInt(4)) @@
                 (ac_mul :> Rat(1, 128)) @@ (ac_mod :> Rat(7, 2)) @@
                 (mov_mul :> Rat(1, 2)) @@ (mov_mod :> One))

With(cfg, p, x) == [cfg EXCEPT !.v[p] = x]

CandKEnd == With(CandBase, k_end, FromInt(30))

CandKStart == With(CandBase, k_start, FromInt(40))

CandLongRest == With(CandBase, rest_mul, Rat(99, 4))

CandZeroDiv == With(With(CandBase, rest_mul, FromInt(-16)), hfa_mod, Zero)

Candidates == {CandBase, CandKEnd, CandKStart, CandLongRest, CandZeroDiv}

\* The model object as a record, and the variables after a call.
Model ==
    [i |-> m_i, valid |-> m_valid, best |-> m_best,
     best_config |-> m_best_config]

SetModel(model) ==
    /\ m_i' = model.i
    /\ m_valid' = model.valid
    /\ m_best' = model.best
    /\ m_best_config' = model.best_config

Init ==
    /\ m_data \in OptFrames
    /\ m_i = ModelMeta(NoConfig).i
    /\ m_valid = ModelMeta(NoConfig).valid
    /\ m_best = ModelMeta(NoConfig).best
    /\ m_best_config = ModelMeta(NoConfig).best_config
    /\ gen = 0
    /\ ostatus = "running"
    /\ fit = NoCall
    /\ FnIdle /\ ReplayIdle /\ ThreadsIdle /\ DrawIdle /\ DormIdle /\ ResultIdle

\* One pass of the loop (lines 296-298): a candidate is drawn and the fitness
\* function called on it; an exception the call does not catch ends the loop.
Generation ==
    /\ ostatus = "running"
    /\ gen < NumGens
    /\ \E config \in Candidates :
           \E f \in {fitness_func(Model, config, m_data)} :
               /\ SetModel(f.model)
               /\ fit' = [solution |-> config, exc |-> f.exc, ret |-> f.ret]
               /\ ostatus' = IF f.exc = "none" THEN "running" ELSE f.exc
    /\ gen' = gen + 1
    /\ UNCHANGED <<m_data, fnVars, replayVars, threadVars, drawVars, dormVars, resultVars>>

\* `return model._best_config` (line 300)
OptimizeReturn ==
    /\ ostatus = "running"
    /\ gen = NumGens
    /\ ostatus' = "returned"
    /\ UNCHANGED <<gen, fit, modelVars, fnVars, replayVars, threadVars, drawVars, dormVars, resultVars>>

Next ==
    \/ Generation
    \/ OptimizeReturn

Spec == Init /\ [][Next]_vars

(***************************************************************************)
(* SpecGA: ga_optimize, whose pygad instance calls the fitness function on *)
(* the solutions of a population from a pool of threads that share the     *)
(* instance (parallel_processing, line 330).  No statement of the fitness  *)
(* function takes a lock, and a thread can be switched out between any     *)
(* two accesses to the instance.                                           *)
(***************************************************************************)
NumThreads == 2

Threads == 1 .. NumThreads

\* Solutions as pygad hands them over, vectors indexed by gene.
SolBase == Vec([p \in Params |-> Get(CandBase, p)])

SolKStart == Vec([p \in Params |-> Get(CandKStart, p)])

SolSlow == Vec([p \in Params |-> Get(With(CandBase, k_start, FromInt(2)), p)])

GASolutions == {SolBase, SolKStart, SolSlow}

GAFrames == {<<RowHomeWin, RowAwayWin>>, <<RowHomeWin, RowTie, RowAwayWin>>}

Locals == [i |-> 0, valid |-> 0, scores |-> [score |-> NaN], exc |-> "none",
           ret |-> NaN]

InitGA ==
    /\ m_data \in GAFrames
    /\ m_i = ModelMeta(Unset).i
    /\ m_valid = ModelMeta(Unset).valid
    /\ m_best = ModelMeta(Unset).best
    /\ m_best_config = ModelMeta(Unset).best_config
    /\ pc = [t \in Threads |-> "load_i"]
    /\ tsol \in [Threads -> GASolutions]
    /\ loc = [t \in Threads |-> Locals]
    /\ FnIdle /\ ReplayIdle /\ LoopIdle /\ DrawIdle /\ DormIdle /\ ResultIdle

Goto(t, label) == pc' = [pc EXCEPT ![t] = label]

\* `model._i += 1` (line 241) reads the attribute ...
LoadI(t) ==
    /\ pc[t] = "load_i"
    /\ loc' = [loc EXCEPT ![t].i = m_i]
    /\ Goto(t, "store_i")
    /\ UNCHANGED <<tsol, modelVars, fnVars, replayVars, loopVars, drawVars, dormVars, resultVars>>

\* ... and writes it back, one higher.
StoreI(t) ==
    /\ pc[t] = "store_i"
    /\ m_i' = loc[t].i + 1
    /\ Goto(t, "forecast")
    /\ UNCHANGED <<loc, tsol, m_data, m_valid, m_best, m_best_config, fnVars,
                   replayVars, loopVars, drawVars, dormVars, resultVars>>

\* The try block (lines 243-246) and the scores of the results, which are
\* local to the thread (lines 249-251).
Forecast(t) ==
    /\ pc[t] = "forecast"
    /\ \E out \in {enrich_elo(m_data, tsol[t])} :
           IF out.exc = "OverflowError"
           THEN /\ loc' = [loc EXCEPT ![t].ret = NegInf]
                /\ Goto(t, "returned")
           ELSE IF out.exc # "none"
           THEN /\ loc' = [loc EXCEPT ![t].exc = out.exc]
                /\ Goto(t, "raised")
           ELSE /\ loc' = [loc EXCEPT ![t].scores = Scores(m_data, out.results)]
                /\ Goto(t, "load_valid")
    /\ UNCHANGED <<tsol, modelVars, fnVars, replayVars, loopVars, drawVars, dormVars, resultVars>>

\* `model._valid += 1` (line 248), read ...
LoadValid(t) ==
    /\ pc[t] = "load_valid"
    /\ loc' = [loc EXCEPT ![t].valid = m_valid]
    /\ Goto(t, "store_valid")
    /\ UNCHANGED <<tsol, modelVars, fnVars, replayVars, loopVars, drawVars, dormVars, resultVars>>

\* ... and write.
StoreValid(t) ==
    /\ pc[t] = "store_valid"
    /\ m_valid' = loc[t].valid + 1
    /\ Goto(t, "compare")
    /\ UNCHANGED <<loc, tsol, m_data, m_i, m_best, m_best_config, fnVars,
                   replayVars, loopVars, drawVars, dormVars, resultVars>>

\* `if score > model._best['score']` (line 252)
Compare(t) ==
    /\ pc[t] = "compare"
    /\ IF Improves(loc[t].scores.score, m_best)
       THEN Goto(t, "store_best") /\ UNCHANGED loc
       ELSE /\ loc' = [loc EXCEPT ![t].ret = loc[t].scores.score]
            /\ Goto(t, "returned")
    /\ UNCHANGED <<tsol, modelVars, fnVars, replayVars, loopVars, drawVars, dormVars, resultVars>>

\* `model._best = scores` (line 259), after the metrics of lines 253-258
StoreBest(t) ==
    /\ pc[t] = "store_best"
    /\ m_best' = loc[t].scores
    /\ Goto(t, "store_config")
    /\ UNCHANGED <<loc, tsol, m_data, m_i, m_valid, m_best_config, fnVars,
                   replayVars, loopVars, drawVars, dormVars, resultVars>>

\* `model._best_config = config` and the return (lines 260-263)
StoreConfig(t) ==
    /\ pc[t] = "store_config"
    /\ m_best_config' = tuple_to_dict(tsol[t]).config
    /\ loc' = [loc EXCEPT ![t].ret = loc[t].scores.score]
    /\ Goto(t, "returned")
    /\ UNCHANGED <<tsol, m_data, m_i, m_valid, m_best, fnVars, replayVars,
                   loopVars, drawVars, dormVars, resultVars>>

NextGA ==
    \E t \in Threads :
        \/ LoadI(t)
        \/ StoreI(t)
        \/ Forecast(t)
        \/ LoadValid(t)
        \/ StoreValid(t)
        \/ Compare(t)
        \/ StoreBest(t)
        \/ StoreConfig(t)

SpecGA == InitGA /\ [][NextGA]_vars

(***************************************************************************)
(* SpecDraw: the start of random_optimize, which turns the gene space of   *)
(* every hyperparameter into a list of values and draws a configuration.   *)
(* The declared low, high and step are decimal numbers; a value of gene p  *)
(* is written here as a whole number of units of 1 / Space(p).scale, in    *)
(* which low, high and step are whole numbers too.                         *)
(***************************************************************************)

\* space_dict(low, high, step) (hyperparams.py, lines 42-45), in units.
space_dict(low, high, step, scale) ==
    [low |-> low, high |-> high, step |-> step, scale |-> scale]

\* The gene spaces of Params (hyperparams.py, lines 68-94).
Space(p) ==
    CASE p = start    -> space_dict(800, 1500, 5, 1)
      [] p = elo_avg  -> space_dict(900, 1700, 5, 1)
      [] p = revert   -> space_dict(5, 55, 1, 100)
      [] p = rest_mul -> space_dict(-100, 100, 1, 4)
      [] p = hfa_mod  -> space_dict(-40, 240, 1, 2)
      [] p = k_start  -> space_dict(2, 60, 1, 1)
      [] p = k_end    -> space_dict(2, 60, 1, 1)
      [] p = k_rate   -> space_dict(4, 20, 1, 1)
      [] p = ac_mul   -> space_dict(1, 10, 1, 1000)
      [] p = ac_mod   -> space_dict(14, 48, 1, 4)
      [] p = mov_mul  -> space_dict(2, 38, 1, 40)
      [] p = mov_mod  -> space_dict(0, 10, 1, 5)

\* ceil(a / b) for b > 0
CeilDiv(a, b) == -((-a) \div b)

\* numpy.arange(low, high, step) (line 290): the ceil((high - low) / step)
\* values low + j * step, which leave out high.
Arange(low, high, step) ==
    [j \in 1 .. CeilDiv(high - low, step) |-> low + (j - 1) * step]

\* The gene whose space is listed for gene g (lines 285-291).  A variant
\* that lists the space of the next gene serves as a mutant.
SpaceGeneShifted(g) == (g + 1) % 12

SpaceGene(g) == g

\* What random.choice(s) can return (line 297), kept to the two ends of s.
Choices(s) == {s[1], s[Len(s)]}

InitDraw ==
    /\ spaces = <<>>
    /\ drawn = <<>>
    /\ dstatus = "spaces"
    /\ FnIdle /\ ReplayIdle /\ ModelIdle /\ LoopIdle /\ ThreadsIdle /\ DormIdle /\ ResultIdle

\* One pass of the loop GET GENE SPACE (lines 285-291) for the gene at
\* index Len(spaces).  No gene space is a list, so each pass ends at line 291.
AddSpace ==
    /\ dstatus = "spaces"
    /\ Len(spaces) < 12
    /\ LET g     == Len(spaces)
           space == Space(SpaceGene(g))
       IN  spaces' = Append(spaces,
                            <<g, Arange(space.low, space.high, space.step)>>)
    /\ UNCHANGED <<drawn, dstatus>>
    /\ UNCHANGED <<fnVars, replayVars, modelVars, loopVars, threadVars, dormVars, resultVars>>

\* The loop is through: the search begins (lines 294-296).
StartDraw ==
    /\ dstatus = "spaces"
    /\ Len(spaces) = 12
    /\ dstatus' = "drawing"
    /\ UNCHANGED <<spaces, drawn>>
    /\ UNCHANGED <<fnVars, replayVars, modelVars, loopVars, threadVars, dormVars, resultVars>>

\* One entry of the dict comprehension of line 297, in the order of spaces.
DrawGene ==
    /\ dstatus = "drawing"
    /\ Cardinality(DOMAIN drawn) < Len(spaces)
    /\ LET gs == spaces[Cardinality(DOMAIN drawn) + 1]
       IN  \E x \in Choices(gs[2]) : drawn' = (gs[1] :> x) @@ drawn
    /\ UNCHANGED <<spaces, dstatus>>
    /\ UNCHANGED <<fnVars, replayVars, modelVars, loopVars, threadVars, dormVars, resultVars>>

\* The configuration is handed to the fitness function (line 298).
Propose ==
    /\ dstatus = "drawing"
    /\ Cardinality(DOMAIN drawn) = Len(spaces)
    /\ dstatus' = "proposed"
    /\ UNCHANGED <<spaces, drawn>>
    /\ UNCHANGED <<fnVars, replayVars, modelVars, loopVars, threadVars, dormVars, resultVars>>

NextDraw ==
    \/ AddSpace
    \/ StartDraw
    \/ DrawGene
    \/ Propose

SpecDraw == InitDraw /\ [][NextDraw]_vars

(***************************************************************************)
(* SpecDorm: one DORM object on a database file, a step per method call.   *)
(* A sqlite connection is a number; conns holds the connections that are   *)
(* open.  The database is the set of the tables that exist; their rows are *)
(* left out, as no method of DORM branches on them.  A statement fails     *)
(* with OperationalError when it creates a table that exists or reads or   *)
(* writes one that does not.                                               *)
(***************************************************************************)
\* Connections the process may hold open at once.
MaxConns == 2

\* self._conn = None
NoConn == 0

Tables == {"movie", "actor"}

Columns == {"age", "name"}

Conditions == {"age > 1"}

Directions == {"ASC", "DESC"}

Limits == {5}

RECURSIVE Join(_, _)
\* sep.join(items)
Join(sep, items) ==
    IF items = <<>> THEN ""
    ELSE IF Len(items) = 1 THEN items[1]
    ELSE items[1] \o sep \o Join(sep, Tail(items))

\* A variant of d[k] = 1 that forgets the keys set before serves as a mutant.
WithKeyAlone(keys, k) == <<k>>

\* The keys of a dict after d[k] = 1: a new key goes last, an old one stays.
WithKey(keys, k) ==
    IF \E i \in DOMAIN keys : keys[i] = k THEN keys ELSE Append(keys, k)

\* The items of _order after _order[c] = direction.
WithOrder(items, c, direction) ==
    IF \E i \in DOMAIN items : items[i][1] = c
    THEN [i \in DOMAIN items |->
             IF items[i][1] = c THEN <<c, direction>> ELSE items[i]]
    ELSE Append(items, <<c, direction>>)

\* The statement built from the clauses given.
BuildQuery(table, select, where, group, having, order, limit) ==
    "SELECT " \o Join(", ", IF select = <<>> THEN <<"*">> ELSE select) \o " "
    \o "FROM " \o table
    \o (IF where # <<>> THEN " WHERE " \o Join(" AND ", where) ELSE "")
    \o (IF group # <<>> THEN " GROUP BY " \o Join(", ", group) ELSE "")
    \o (IF having # <<>> THEN " HAVING " \o Join(" AND ", having) ELSE "")
    \o (IF order # <<>>
        THEN " ORDER BY " \o Join(", ", [i \in DOMAIN order |->
                                            order[i][1] \o " " \o order[i][2]])
        ELSE "")
    \o (IF limit # <<>> /\ limit[1] # 0
        THEN " LIMIT " \o ToString(limit[1]) ELSE "")

_build_query == BuildQuery(_table, _select, _where, _group, _having, _order, _limit)

\* sqlite3.connect: a connection that is not open yet.
Connect == CHOOSE c \in 1 .. MaxConns : c \notin conns /\ \A b \in 1 .. c - 1 : b \in conns

CanConnect == Cardinality(conns) < MaxConns

\* _open(): the persistent connection if there is one, else a new one.
_open == IF _conn # NoConn THEN _conn ELSE Connect

\* _close(conn), on the set of open connections: conn is closed unless a
\* persistent connection is set.
_close(conn, open) == IF _conn = NoConn THEN open \ {conn} ELSE open

clauseVars == <<_select, _where, _group, _having, _order, _limit>>

InitDorm ==
    /\ _conn = NoConn
    /\ _table \in Tables
    /\ _cols = <<>>
    /\ _select = <<>> /\ _where = <<>> /\ _group = <<>> /\ _having = <<>>
    /\ _order = <<>> /\ _limit = <<>>
    /\ conns = {}
    /\ db = {}
    /\ op = "__init__" /\ query = "" /\ outcome = "ok"
    /\ FnIdle /\ ReplayIdle /\ ModelIdle /\ LoopIdle /\ ThreadsIdle /\ DrawIdle
    /\ ResultIdle

\* A method that builds no statement has returned.
Returned(name) == op' = name /\ query' = "" /\ outcome' = "ok"

\* open()
Open ==
    /\ _conn = NoConn => CanConnect
    /\ _conn' = _open
    /\ conns' = conns \cup {_open}
    /\ Returned("open")
    /\ UNCHANGED <<_table, _cols, clauseVars, db>>
    /\ UNCHANGED <<fnVars, replayVars, modelVars, loopVars, threadVars, drawVars, resultVars>>

\* close()
Close ==
    /\ conns' = conns \ {_conn}
    /\ _conn' = NoConn
    /\ Returned("close")
    /\ UNCHANGED <<_table, _cols, clauseVars, db>>
    /\ UNCHANGED <<fnVars, replayVars, modelVars, loopVars, threadVars, drawVars, resultVars>>

\* A statement has been executed on the connection _open() returned.  If it
\* failed the exception leaves the method before _close() is reached.
Executed(name, statement, fails) ==
    /\ _conn = NoConn => CanConnect
    /\ op' = name
    /\ query' = statement
    /\ IF fails
       THEN outcome' = "OperationalError" /\ conns' = conns \cup {_open}
       ELSE outcome' = "ok" /\ conns' = _close(_open, conns \cup {_open})

\* create(*cols)
Create ==
    /\ \E cols \in {<<"age", "name">>} :
        /\ _cols' = cols
        /\ Executed("create",
                    "CREATE TABLE " \o _table \o "(" \o Join(", ", cols) \o ")",
                    _table \in db)
    /\ db' = db \cup {_table}
    /\ UNCHANGED <<_conn, _table, clauseVars>>
    /\ UNCHANGED <<fnVars, replayVars, modelVars, loopVars, threadVars, drawVars, resultVars>>

\* insert(data), data a non-empty list of tuples of two values.
Insert ==
    /\ \E data \in {<<<<1, "a">>>>} :
        Executed("insert",
                 "INSERT INTO " \o _table \o " VALUES("
                     \o Join(", ", [i \in DOMAIN data[1] |-> "?"]) \o ")",
                 _table \notin db)
    /\ UNCHANGED <<_conn, _table, _cols, clauseVars, db>>
    /\ UNCHANGED <<fnVars, replayVars, modelVars, loopVars, threadVars, drawVars, resultVars>>

\* run(), with neither immediate nor query given
Run ==
    /\ Executed("run", _build_query, _table \notin db)
    /\ UNCHANGED <<_conn, _table, _cols, clauseVars, db>>
    /\ UNCHANGED <<fnVars, replayVars, modelVars, loopVars, threadVars, drawVars, resultVars>>

\* pandas(), with no query given and pandas installed
Pandas ==
    /\ Executed("pandas", _build_query, _table \notin db)
    /\ UNCHANGED <<_conn, _table, _cols, clauseVars, db>>
    /\ UNCHANGED <<fnVars, replayVars, modelVars, loopVars, threadVars, drawVars, resultVars>>

\* A connection no variable refers to any more is closed when its object is
\* reclaimed, at a moment the interpreter chooses.
Reclaim ==
    /\ \E c \in conns \ {_conn} : conns' = conns \ {c}
    /\ UNCHANGED <<_conn, _table, _cols, clauseVars, db, op, query, outcome>>
    /\ UNCHANGED <<fnVars, replayVars, modelVars, loopVars, threadVars, drawVars, resultVars>>

\* table(_table)
Table ==
    /\ \E t \in Tables : _table' = t
    /\ Returned("table")
    /\ UNCHANGED <<_conn, _cols, clauseVars, conns, db>>
    /\ UNCHANGED <<fnVars, replayVars, modelVars, loopVars, threadVars, drawVars, resultVars>>

\* reset(_table), the table None or a name
Reset ==
    /\ _select' = <<>> /\ _where' = <<>> /\ _group' = <<>> /\ _having' = <<>>
    /\ _order' = <<>> /\ _limit' = <<>>
    /\ \E t \in Tables \cup {""} :
        /\ _table' = IF t # "" THEN t ELSE _table
        /\ op' = IF t # "" THEN "reset(table)" ELSE "reset"
    /\ query' = "" /\ outcome' = "ok"
    /\ UNCHANGED <<_conn, _cols, conns, db>>
    /\ UNCHANGED <<fnVars, replayVars, modelVars, loopVars, threadVars, drawVars, resultVars>>

\* select(col)
Select ==
    /\ \E col \in Columns : _select' = WithKey(_select, col)
    /\ Returned("select")
    /\ UNCHANGED <<_conn, _table, _cols, _where, _group, _having, _order, _limit, conns, db>>
    /\ UNCHANGED <<fnVars, replayVars, modelVars, loopVars, threadVars, drawVars, resultVars>>

\* where(col)
Where ==
    /\ \E col \in Conditions : _where' = WithKey(_where, col)
    /\ Returned("where")
    /\ UNCHANGED <<_conn, _table, _cols, _select, _group, _having, _order, _limit, conns, db>>
    /\ UNCHANGED <<fnVars, replayVars, modelVars, loopVars, threadVars, drawVars, resultVars>>

\* group(col)
Group ==
    /\ \E col \in {"name"} : _group' = WithKey(_group, col)
    /\ Returned("group")
    /\ UNCHANGED <<_conn, _table, _cols, _select, _where, _having, _order, _limit, conns, db>>
    /\ UNCHANGED <<fnVars, replayVars, modelVars, loopVars, threadVars, drawVars, resultVars>>

\* having(col)
Having ==
    /\ \E col \in Conditions : _having' = WithKey(_having, col)
    /\ Returned("having")
    /\ UNCHANGED <<_conn, _table, _cols, _select, _where, _group, _order, _limit, conns, db>>
    /\ UNCHANGED <<fnVars, replayVars, modelVars, loopVars, threadVars, drawVars, resultVars>>

\* order(col), col a name (direction ASC) or a pair of name and direction
Order ==
    /\ \E c \in {"name"}, direction \in Directions :
        _order' = WithOrder(_order, c, direction)
    /\ Returned("order")
    /\ UNCHANGED <<_conn, _table, _cols, _select, _where, _group, _having, _limit, conns, db>>
    /\ UNCHANGED <<fnVars, replayVars, modelVars, loopVars, threadVars, drawVars, resultVars>>

\* limit(n)
Limit ==
    /\ \E n \in Limits : _limit' = <<n>>
    /\ Returned("limit")
    /\ UNCHANGED <<_conn, _table, _cols, _select, _where, _group, _having, _order, conns, db>>
    /\ UNCHANGED <<fnVars, replayVars, modelVars, loopVars, threadVars, drawVars, resultVars>>

NextDorm ==
    \/ Open
    \/ Close
    \/ Create
    \/ Insert
    \/ Run
    \/ Pandas
    \/ Reclaim
    \/ Table
    \/ Reset
    \/ Select
    \/ Where
    \/ Group
    \/ Having
    \/ Order
    \/ Limit

SpecDorm == InitDorm /\ [][NextDorm]_vars

(***************************************************************************)
(* SpecGroups: Result.groups() on the Result of a run() made without a     *)
(* persistent connection, so that its rows have been fetched (_setup,      *)
(* line 346).  A row holds one value per selected column, or one per       *)
(* column of the table when nothing is selected.  No column is in          *)
(* parse_dates.                                                            *)
(***************************************************************************)
\* Rows a Result may hold.
MaxItems == 2

MovieColumns == <<"franchise", "year", "title">>

\* Rows of the table movie of tests.py, the numbers as text.
Movies == {<<"Marvel", "2008", "Iron Man">>, <<"Marvel", "2011", "Thor">>,
           <<"DC", "2018", "Aquaman">>}

GroupSelects == {<<>>, <<"franchise", "title">>, <<"year", "title">>,
                 <<"franchise", "year", "title">>}

GroupBys == {<<>>, <<"franchise">>, <<"franchise", "year">>}

\* The position of column k in the sequence cols.
IndexOf(cols, k) == CHOOSE i \in DOMAIN cols : cols[i] = k

\* The row sqlite returns for a row of the table under the columns selected.
Fetched(row, select) ==
    IF select = <<>> THEN row
    ELSE [i \in DOMAIN select |-> row[IndexOf(MovieColumns, select[i])]]

InitGroups ==
    /\ _select \in GroupSelects
    /\ _group \in GroupBys
    /\ _conn = NoConn /\ _table = "movie" /\ _cols = <<>>
    /\ _where = <<>> /\ _having = <<>> /\ _order = <<>> /\ _limit = <<>>
    /\ conns = {} /\ db = {"movie"}
    /\ op = "run" /\ outcome = "ok"
    /\ query = _build_query
    /\ result \in {[i \in DOMAIN rows |-> Fetched(rows[i], _select)] :
                      rows \in Frames(Movies, MaxItems)}
    /\ _fmt = "None"
    /\ _result = 0
    /\ grouped = <<>>
    /\ gstatus = "run"
    /\ FnIdle /\ ReplayIdle /\ ModelIdle /\ LoopIdle /\ ThreadsIdle /\ DrawIdle

\* _to_dict(item) (lines 399-411): the value of the item at the position of
\* every selected column, under the name of the column.
_to_dict(item) == [k \in {_select[i] : i \in DOMAIN _select} |-> item[IndexOf(_select, k)]]

\* The key _to_group takes from item_dict (lines 420-422): the tuple of the
\* values of the GROUP BY columns, or the value alone if there is one column.
GroupKey(item_dict) ==
    IF Len(_group) = 1 THEN item_dict[_group[1]]
    ELSE [i \in DOMAIN _group |-> item_dict[_group[i]]]

\* _to_group(item) (lines 413-424).  Looking up a GROUP BY column that is not
\* selected raises KeyError.  Line 423 builds a generator of pops and drops
\* it without running it, so item_dict is returned as _to_dict made it.
_to_group(item) ==
    IF \E i \in DOMAIN _group : _group[i] \notin DOMAIN _to_dict(item)
    THEN [exc |-> "KeyError", key |-> <<>>, val |-> <<>>]
    ELSE [exc |-> "none", key |-> GroupKey(_to_dict(item)), val |-> _to_dict(item)]

\* groups() up to the first item (lines 396-397, 426-435): the format is set
\* and __iter__ starts over the rows.
Groups ==
    /\ gstatus = "run"
    /\ _fmt' = "group"
    /\ _result' = 0
    /\ gstatus' = "iterating"
    /\ UNCHANGED <<result, grouped, dormVars>>
    /\ UNCHANGED <<fnVars, replayVars, modelVars, loopVars, threadVars, drawVars>>

\* __next__ (lines 437-444) for the next row, and the entry dict() makes of
\* the pair: a key seen before is overwritten.
NextItem ==
    /\ gstatus = "iterating"
    /\ _result < Len(result)
    /\ _result' = _result + 1
    /\ \E pair \in {_to_group(result[_result + 1])} :
           IF pair.exc # "none"
           THEN gstatus' = pair.exc /\ UNCHANGED grouped
           ELSE /\ grouped' = (pair.key :> pair.val) @@ grouped
                /\ UNCHANGED gstatus
    /\ UNCHANGED <<result, _fmt, dormVars>>
    /\ UNCHANGED <<fnVars, replayVars, modelVars, loopVars, threadVars, drawVars>>

\* The rows are used up and groups() returns the dict.
GroupsReturn ==
    /\ gstatus = "iterating"
    /\ _result = Len(result)
    /\ gstatus' = "returned"
    /\ UNCHANGED <<result, _fmt, _result, grouped, dormVars>>
    /\ UNCHANGED <<fnVars, replayVars, modelVars, loopVars, threadVars, drawVars>>

NextGroups ==
    \/ Groups
    \/ NextItem
    \/ GroupsReturn

SpecGroups == InitGroups /\ [][NextGroups]_vars

(***************************************************************************)
(* Claims about elo.py, checked under SpecElo.                             *)
(***************************************************************************)

CalcEloReturned == call = "calc_elo" /\ ret.exc = "none"

\* The exact value of (post1 - pre1) + (post2 - pre2), and the last-place
\* units of post1 and post2, all as integer multiples of 2^E, E the smallest
\* exponent in sight.
MinOf(S) == CHOOSE i \in S : \A j \in S : i <= j

LastPlace(v) == Top(v) - Precision

ZeroSumUnit(r) ==
    MinOf({r.elo_pre1.e, r.elo_pre2.e, r.elo_post1.e, r.elo_post2.e,
           LastPlace(r.elo_post1), LastPlace(r.elo_post2)})

Scaled(v, E) == v.m * 2 ^ (v.e - E)

Ulp(v, E) == IF v.m = 0 THEN 0 ELSE 2 ^ (LastPlace(v) - E)

ZeroSumError(r) ==
    LET E == ZeroSumUnit(r)
    IN  (Scaled(r.elo_post1, E) - Scaled(r.elo_pre1, E))
        + (Scaled(r.elo_post2, E) - Scaled(r.elo_pre2, E))

\* C5 as stated: for every match calc_elo processes, the floating-point
\* expressions post1 - pre1 and -(post2 - pre2) are equal.
C5_ZeroSumExact ==
    CalcEloReturned =>
        FSub(ret.elo_post1, ret.elo_pre1) = FNeg(FSub(ret.elo_post2, ret.elo_pre2))

\* C5 amended: calc_elo adds one shift to side 1 and subtracts the same shift
\* from side 2, each sum rounded once, so (post1 - pre1) + (post2 - pre2) is
\* zero up to half a unit in the last place of post1 plus half a unit in the
\* last place of post2.
C5_ZeroSumUpToRounding ==
    CalcEloReturned =>
        2 * Abs(ZeroSumError(ret))
            <= Ulp(ret.elo_post1, ZeroSumUnit(ret)) + Ulp(ret.elo_post2, ZeroSumUnit(ret))

\* A match with a result whose two sums round differently: the update is
\* zero-sum only up to rounding.
C5_Witness ==
    /\ CalcEloReturned
    /\ HasResult(args.mov)
    /\ ZeroSumError(ret) # 0
    /\ C5_ZeroSumUpToRounding

NoResult == args.mov = Zero \/ IsNaN(args.mov)

\* C7 as stated, already on the matches whose games played are numbers: a
\* match whose margin is 0 or nan raises no error, and each side's post-match
\* rating is its adjusted pre-match rating.
C7_TieNeverRaises ==
    (call = "calc_elo" /\ NoResult /\ args.n1 # None /\ args.n2 # None) =>
        /\ ret.exc = "none"
        /\ ret.elo_post1 = ret.elo_pre1
        /\ ret.elo_post2 = ret.elo_pre2

\* C7 amended: for a margin of 0 or nan the post-match step is skipped, so
\* nothing it would look up (k_start, ac_*, mov_*) can raise; calc_elo raises
\* exactly what the pre-match shift of side 1, then of side 2, then the
\* probability raise, and otherwise returns the adjusted pre-match ratings as
\* post-match ratings with the probability of the shifted differential.
C7_TieNoPostShift ==
    (call = "calc_elo" /\ NoResult) =>
        LET s1   == shift_elo_pre(args.elo_pre1, args.n1, args.cfg)
            s2   == shift_elo_pre(args.elo_pre2, args.n2, args.cfg)
            pre1 == FAdd(args.elo_pre1, s1.val)
            pre2 == FAdd(args.elo_pre2, s2.val)
            prob == elo_probability(calc_pre_diff(pre1, pre2, args.rest[1],
                                                  args.rest[2], args.neutral,
                                                  args.cfg))
        IN  IF s1.exc # "none" THEN ret.exc = s1.exc
            ELSE IF s2.exc # "none" THEN ret.exc = s2.exc
            ELSE IF prob.exc # "none" THEN ret.exc = prob.exc
            ELSE ret = EloResult("none", pre1, pre2, pre1, pre2, prob.val)

\* A nan margin under a configuration without k_start, side 1 at the start of
\* its season: the rating moves by the mean reversion only.
C7_Witness ==
    /\ call = "calc_elo"
    /\ IsNaN(args.mov)
    /\ args.cfg = CfgRevert
    /\ args.n1 = Zero
    /\ ret.exc = "none"
    /\ ret.elo_pre1 # args.elo_pre1
    /\ ret.elo_post1 = ret.elo_pre1
    /\ ret.elo_post2 = ret.elo_pre2

\* C9 as stated: shift_elo_pre returns 0, and raises nothing, whenever
\* games played is greater than 0, None or nan.
C9_NoShiftMidSeasonOrUnknown ==
    (call = "shift_elo_pre"
        /\ (FGt(args.n1, Zero) \/ args.n1 = None \/ IsNaN(args.n1)))
    => ret = Ok(Zero)

\* The value the specification gives for the start of a season.
MeanReversion(rating, cfg) ==
    FSub(FAdd(FMul(Get(cfg, elo_avg), Get(cfg, revert)),
              FMul(rating, FSub(One, Get(cfg, revert)))),
         rating)

SeasonStartCall == call = "shift_elo_pre" /\ args.n1 = Zero

\* C10 as stated: at 0 games played shift_elo_pre returns the mean reversion
\* when elo_avg and revert are both present and 0, without raising, when
\* either is missing.
C10_MissingKeyIsNoOp ==
    SeasonStartCall =>
        IF elo_avg \in DOMAIN args.cfg.v /\ revert \in DOMAIN args.cfg.v
        THEN ret = Ok(MeanReversion(args.elo_pre1, args.cfg))
        ELSE ret = Ok(Zero)

\* C10 amended: at 0 games played shift_elo_pre returns the mean reversion
\* when both keys are present, returns 0 when elo_avg is missing (with or
\* without revert), and raises KeyError when elo_avg is present and revert is
\* missing.
C10_SeasonStartShift ==
    SeasonStartCall =>
        IF elo_avg \notin DOMAIN args.cfg.v THEN ret = Ok(Zero)
        ELSE IF revert \notin DOMAIN args.cfg.v THEN ret.exc = "KeyError"
        ELSE ret = Ok(MeanReversion(args.elo_pre1, args.cfg))

\* A season start under a configuration with both keys, the rating pulled
\* towards elo_avg.
C10_Witness ==
    /\ SeasonStartCall
    /\ args.cfg = CfgRevert
    /\ args.elo_pre1 = FromInt(1500)
    /\ ret = Ok(MeanReversion(args.elo_pre1, args.cfg))
    /\ FLt(ret.val, FromInt(-100))

(***************************************************************************)
(* Claims about the season replay, checked under SpecReplay.               *)
(***************************************************************************)

\* The items of the rows so far follow the padding row until it is dropped.
ItemOf(j) == IF rstatus = "done" THEN results[j] ELSE results[j + 1]

RECURSIVE LastBefore(_, _)
\* The most recent row before row i that names team t, 0 if there is none.
LastBefore(i, t) ==
    IF i <= 1 THEN 0
    ELSE IF t \in {rdf[i - 1].team1, rdf[i - 1].team2} THEN i - 1
    ELSE LastBefore(i - 1, t)

\* The rating the fold owes team t at row i.  A row naming t on both sides
\* produces two post-match ratings for it, of which the second one is kept.
Expected(i, t) ==
    LET j == LastBefore(i, t)
    IN  IF j = 0 THEN Get(rcfg, start)
        ELSE IF rdf[j].team2 = t THEN ItemOf(j).elo_post2
        ELSE ItemOf(j).elo_post1

\* What calc_elo returns for row i when handed the ratings in passed[i].
MatchResultOf(i) ==
    calc_elo(rcfg, passed[i][1], passed[i][2],
             FSub(rdf[i].score1, rdf[i].score2), rdf[i].played1,
             rdf[i].played2, rdf[i].rest1, rdf[i].rest2, rdf[i].neutral)

\* C6: the replay is a left fold in input order.  Every call of calc_elo is
\* handed, for each side, `start` when the team is in no earlier row and
\* else the post-match rating of the most recent earlier row naming it; and
\* the returned array holds one result per row, at the row's position.
C6_ReplayIsLeftFold ==
    /\ Len(passed) <= Len(rdf)
    /\ \A i \in 1 .. Len(passed) :
           passed[i] = <<Expected(i, rdf[i].team1), Expected(i, rdf[i].team2)>>
    /\ rstatus = "done" =>
           /\ Len(results) = Len(rdf)
           /\ Len(passed) = Len(rdf)
           /\ \A i \in 1 .. Len(rdf) : results[i] = MatchResultOf(i)

\* A finished replay of three rows whose last row meets one team last seen
\* in the first row and one last seen in the second, both with ratings
\* that have moved since and away from `start`.
C6_Witness ==
    /\ rstatus = "done"
    /\ Len(rdf) = 3
    /\ LastBefore(3, rdf[3].team1) = 2
    /\ LastBefore(3, rdf[3].team2) = 1
    /\ passed[3][2] # Get(rcfg, start)
    /\ passed[3][2] # passed[1][1]
    /\ results[3].elo_post1 # results[3].elo_pre1

\* The hyperparameters a term of the model reads once it is enabled.
LacksRequired(cfg) ==
    \/ Missing(cfg, k_start)
    \/ Has(cfg, elo_avg) /\ Missing(cfg, revert)
    \/ Has(cfg, ac_mod) /\ Missing(cfg, ac_mul)
    \/ Has(cfg, mov_mul) /\ Missing(cfg, mov_mod)
    \/ Has(cfg, k_rate) /\ Missing(cfg, k_end)

\* C8: a configuration lacking a required hyperparameter is rejected before
\* any match result is produced: its replay never holds a result other
\* than the padding row.
C8_IncompleteCfgRejected ==
    LacksRequired(rcfg) => \A i \in 1 .. Len(results) : results[i] = Bogey

(***************************************************************************)
(* Claims about the fitness function, checked under Spec and SpecGA.       *)
(***************************************************************************)

Finished(t) == pc[t] \in {"returned", "raised"}

Succeeded(t) == pc[t] = "returned" /\ IsFinite(loc[t].ret)

\* C1: under every interleaving of the concurrent evaluations, once all of
\* them have finished the recorded best score is the maximum score of the
\* successful ones: none of them scored higher than what is recorded.
C1_BestIsMaxWhenAllFinished ==
    (\A t \in Threads : Finished(t)) =>
        \A t \in Threads : Succeeded(t) => ~FLt(m_best.score, loc[t].ret)

\* The thread has decided to record a new best and has not finished doing so.
Recording(t) == pc[t] \in {"store_best", "store_config"}

\* C19: under every interleaving, whenever no evaluation is in the middle of
\* recording a new best, the recorded best configuration is the
\* configuration of the evaluation that produced the recorded best scores
\* (or nothing has been recorded yet).
C19_ConfigOfBestScores ==
    (\A t \in Threads : ~Recording(t)) =>
        \/ /\ m_best = ModelMeta(Unset).best
           /\ m_best_config = ModelMeta(Unset).best_config
        \/ \E t \in Threads :
               /\ pc[t] = "returned"
               /\ m_best = loc[t].scores
               /\ m_best_config = tuple_to_dict(tsol[t]).config

\* The latest call of the fitness function succeeded with this score.
CallSucceeded == fit.exc = "none" /\ IsFinite(fit.ret)

\* C2: in a sequential run a call replaces the best scores and configuration
\* exactly when it succeeds with a score strictly greater than the best
\* score before it, and then with its own score and configuration; any
\* other call, one that ties included, leaves both as they were.
C2_ReplacedOnStrictImprovement ==
    [][gen' = gen + 1 =>
          IF CallSucceeded' /\ FGt(fit'.ret, m_best.score)
          THEN /\ m_best'.score = fit'.ret
               /\ m_best_config' = fit'.solution
          ELSE UNCHANGED <<m_best, m_best_config>>]_vars

\* A call has tied with the best score under another configuration than
\* the recorded one, which stayed.
C2_Witness ==
    /\ CallSucceeded
    /\ fit.ret = m_best.score
    /\ fit.solution # m_best_config
    /\ m_best_config # NoConfig

\* The latest call failed with a numeric error.
NumericErrors == {"OverflowError", "ZeroDivisionError"}

\* C3: a numeric domain error raised during the replay never leaves the
\* fitness function, so it never ends the search.
C3_NumericErrorNeverPropagates ==
    /\ fit.exc \notin NumericErrors
    /\ ostatus \notin NumericErrors

CallFailed == fit.exc \in NumericErrors \/ fit.ret = NegInf

HfaTerm(cfg, neutral) ==
    IF hfa_mod \in DOMAIN cfg.v /\ ~neutral THEN cfg.v[hfa_mod] ELSE Zero

RestTerm(cfg, rest1, rest2) ==
    IF rest_mul \in DOMAIN cfg.v
    THEN FMul(cfg.v[rest_mul], FSub(rest1, rest2)) ELSE Zero

\* C11: calc_pre_diff returns rating1 - rating2, plus hfa_mod exactly when
\* hfa_mod is present and the game is not neutral, plus
\* rest_mul * (rest1 - rest2) exactly when rest_mul is present; on the
\* arguments of the test it returns -205, and -215 on neutral ground.
C11_PreDiffTerms ==
    /\ call = "calc_pre_diff" =>
           ret = Ok(FAdd(FAdd(FSub(args.elo_pre1, args.elo_pre2),
                              HfaTerm(args.cfg, args.neutral)),
                         RestTerm(args.cfg, args.rest[1], args.rest[2])))
    /\ calc_pre_diff(FromInt(1000), FromInt(1200), FromInt(2), FromInt(5),
                     FALSE, CfgHfaRest) = FromInt(-205)
    /\ calc_pre_diff(FromInt(1000), FromInt(1200), FromInt(2), FromInt(5),
                     TRUE, CfgHfaRest) = FromInt(-215)

\* calc_pre_diff has returned for a home game with both terms present and
\* unequal rest: 1000 - 1500 + 10 + 5 * (2 - 5).
C11_Witness ==
    /\ call = "calc_pre_diff"
    /\ args.cfg = CfgHfaRest
    /\ ~args.neutral
    /\ args.elo_pre1 = FromInt(1000) /\ args.elo_pre2 = FromInt(1500)
    /\ args.rest = <<FromInt(2), FromInt(5)>>
    /\ ret = Ok(FromInt(-505))

\* shift_elo_post has returned for a configuration with k_start and neither
\* autocorrelation term, on game counts that are numbers.
PlainShiftReturned ==
    /\ call = "shift_elo_post"
    /\ ret.exc = "none"
    /\ {ac_mod, mov_mul} \cap DOMAIN args.cfg.v = {}
    /\ IsFinite(args.n1) /\ IsFinite(args.n2)

\* The K-factor the claim names: twice the mean is compared with twice
\* k_rate, so nothing is rounded.
ClaimedK ==
    IF k_rate \notin DOMAIN args.cfg.v THEN args.cfg.v[k_start]
    ELSE IF FLe(FAdd(args.n1, args.n2), FMul(FromInt(2), args.cfg.v[k_rate]))
    THEN args.cfg.v[k_start]
    ELSE args.cfg.v[k_end]

Expectation ==
    FSub(IF FGt(args.mov, Zero) THEN One ELSE Zero,
         elo_probability(FSub(args.elo_pre1, args.elo_pre2)).val)

\* C12: the K-factor of shift_elo_post is k_start when k_rate is absent,
\* k_start when (games1 + games2) / 2 <= k_rate, the boundary included and
\* the mean not rounded, and k_end when the mean is greater.  With no other
\* multiplier configured the shift is that K-factor times win1 - win_prob1.
C12_KFactor ==
    PlainShiftReturned => ret.val = FMul(ClaimedK, Expectation)

\* The three cases with k_rate present: a mean equal to k_rate, a mean of
\* 4.5 above a k_rate of 4, and a mean below k_rate.
C12_WitnessBoundary ==
    /\ PlainShiftReturned
    /\ args.cfg = CfgKRate1
    /\ args.n1 = FromInt(2) /\ args.n2 = Zero
    /\ args.mov = FromInt(2)
    /\ ret.val = FMul(FromInt(20), Expectation)
    /\ ret.val # FMul(FromInt(10), Expectation)

C12_WitnessAbove ==
    /\ PlainShiftReturned
    /\ args.cfg = CfgKRate4
    /\ args.n1 = Zero /\ args.n2 = FromInt(9)
    /\ args.mov = FromInt(2)
    /\ ret.val = FMul(FromInt(10), Expectation)
    /\ ret.val # FMul(FromInt(20), Expectation)

\* The values of a configuration lie within the ranges hyperparams.py
\* declares for them: low <= value < high.
InDeclaredRange(cfg) ==
    \A p \in DOMAIN cfg.v :
        /\ FLe(Rat(Space(p).low, Space(p).scale), cfg.v[p])
        /\ FLt(cfg.v[p], Rat(Space(p).high, Space(p).scale))

\* C15: for a configuration within the declared ranges, a win by side 1 never
\* lowers side 1's rating and never raises side 2's, and symmetrically for a
\* win by side 2.
C15_WinnerNeverLoses ==
    (CalcEloReturned /\ args.cfg.kind = "dict" /\ InDeclaredRange(args.cfg)) =>
        /\ FGt(args.mov, Zero) =>
               FLe(ret.elo_pre1, ret.elo_post1) /\ FLe(ret.elo_post2, ret.elo_pre2)
        /\ FLt(args.mov, Zero) =>
               FLe(ret.elo_post1, ret.elo_pre1) /\ FLe(ret.elo_pre2, ret.elo_post2)

(***************************************************************************)
(* Claims about the win probability, checked under SpecProb.               *)
(***************************************************************************)

ProbDiff == FSub(args.elo_pre1, args.elo_pre2)

\* C16: the win probability is 0.5 for a differential of 0, the
\* probabilities of d and -d add up to 1 for every differential d, and the
\* probability lies strictly between 0 and 1 for every d.
C16_ProbabilityLaws ==
    call = "elo_probability" =>
        \A mirror \in {elo_probability(FNeg(ProbDiff))} :
            /\ ret.exc = "none"
            /\ mirror.exc = "none"
            /\ ProbDiff = Zero => ret.val = Rat(1, 2)
            /\ FAdd(ret.val, mirror.val) = One
            /\ FLt(Zero, ret.val)
            /\ FLt(ret.val, One)

(***************************************************************************)
(* Claims about the configurations random search proposes, under SpecDraw. *)
(***************************************************************************)

\* x is low + j * step of gene p for a non-negative integer j, and lies
\* within the declared [low, high].
OnGrid(p, x) ==
    /\ Space(p).low <= x
    /\ x <= Space(p).high
    /\ (x - Space(p).low) % Space(p).step = 0

C20_VecIsSameReplay ==
    rstatus \notin {"idle", "called", "running"} =>
        \A v \in {enrich_elo_vec(rdf, rcfg)} :
            IF rstatus = "done"
            THEN /\ v.exc = "none"
                 /\ v.results = results
                 /\ v.team_elos = team_elos
            ELSE v.exc = rstatus

\* A finished replay of more than one row in which a team plays twice, its
\* second match replayed from the rating the first one left.
C20_Witness ==
    /\ rstatus = "done"
    /\ Len(rdf) >= 2
    /\ Len(results) = Len(rdf)
    /\ rdf[2].team2 = rdf[1].team1
    /\ results[2].elo_pre2 = results[1].elo_post1
    /\ results[2].elo_pre2 # Get(rcfg, start)
    /\ results = enrich_elo_vec(rdf, rcfg).results

\* A replay without mean reversion, over rows of two distinct teams, that
\* has set the ratings of its teams.
NoReversionReplay ==
    /\ rstatus \in {"running", "done"}
    /\ rcfg.kind = "dict"
    /\ ~Missing(rcfg, start)
    /\ ~Has(rcfg, elo_avg)
    /\ \A i \in 1 .. Len(rdf) : rdf[i].team1 # rdf[i].team2

\* The post-match ratings produced so far that are not zero.
PostsSoFar ==
    {v \in {results[i].elo_post1 : i \in 1 .. Len(results)}
            \cup {results[i].elo_post2 : i \in 1 .. Len(results)} : v.m # 0}

\* The exponent of the smallest last place among the current ratings, start
\* and the post-match ratings so far.
RatingUnit ==
    MinOf({LastPlace(v) : v \in {team_elos[t] : t \in DOMAIN team_elos}
                                \cup {Get(rcfg, start)} \cup PostsSoFar})

RECURSIVE ScaledSum(_, _)
\* The exact sum of the ratings of the teams in S, in units of 2^E.
ScaledSum(S, E) ==
    IF S = {} THEN 0
    ELSE LET t == CHOOSE x \in S : TRUE
         IN  Scaled(team_elos[t], E) + ScaledSum(S \ {t}, E)

\* The exact difference between the sum of the current ratings and
\* (number of teams) * start, in units of 2^RatingUnit.
RatingSumError ==
    ScaledSum(DOMAIN team_elos, RatingUnit)
        - Cardinality(DOMAIN team_elos) * Scaled(Get(rcfg, start), RatingUnit)

RECURSIVE UlpsOf(_, _)
\* The last-place units of post1 and post2 of every result so far, summed, in
\* units of 2^E.
UlpsOf(items, E) ==
    IF items = <<>> THEN 0
    ELSE Ulp(Head(items).elo_post1, E) + Ulp(Head(items).elo_post2, E)
             + UlpsOf(Tail(items), E)

\* C21 as stated: in a replay without elo_avg over rows of distinct teams the
\* sum of all current ratings is, after every row, (number of teams) * start.
C21_RatingSumConserved ==
    NoReversionReplay => RatingSumError = 0

\* C21 amended: every row adds one shift to a rating and subtracts it from
\* another, each sum rounded once, so the sum of the ratings differs from
\* (number of teams) * start by at most half a unit in the last place of
\* every post-match rating produced so far.
C21_RatingSumUpToRounding ==
    NoReversionReplay => 2 * Abs(RatingSumError) <= UlpsOf(results, RatingUnit)

\* A finished replay of three rows whose ratings no longer add up to three
\* times start, within the rounding of the six sums made.
C21_Witness ==
    /\ NoReversionReplay
    /\ rstatus = "done"
    /\ Len(results) = 3
    /\ RatingSumError # 0
    /\ C21_RatingSumUpToRounding

\* The mapping {hyperparameter i -> v[i]} of a value vector.
AsMapping(cfg) == Dict(cfg.v)

\* C14: a replay with a value vector ordered by hyperparameter index treats
\* every hyperparameter as present with the value at its index: it returns
\* the results of the replay with the mapping {i -> v[i]}.
C14_VectorReplaysAsMapping ==
    \A m \in {enrich_elo(rdf, AsMapping(rcfg))} :
        rcfg.kind = "vec" /\ rstatus = "done" /\ m.exc = "none" =>
            results = m.results

(***************************************************************************)
(* Claims about DORM, checked under SpecDorm.                              *)
(***************************************************************************)

\* C17: after any sequence of open(), close(), create(), insert(), run() and
\* pandas() calls, failing ones included, the number of open sqlite
\* connections is 1 if a persistent connection is set and 0 otherwise.
C17_OneConnectionIffPersistent ==
    op \in {"__init__", "open", "close", "create", "insert", "run", "pandas"} =>
        Cardinality(conns) = IF _conn # NoConn THEN 1 ELSE 0

\* The first sequence is the beginning of the second.
Prefix(a, b) == Len(a) <= Len(b) /\ \A i \in DOMAIN a : a[i] = b[i]

OrderKeys(items) == [i \in DOMAIN items |-> items[i][1]]

ClausesEmpty ==
    /\ _select = <<>> /\ _where = <<>> /\ _group = <<>> /\ _having = <<>>
    /\ _order = <<>> /\ _limit = <<>>

\* The step of a method other than reset() keeps every clause set so far.
ClausesKept ==
    /\ Prefix(_select, _select') /\ Prefix(_where, _where')
    /\ Prefix(_group, _group') /\ Prefix(_having, _having')
    /\ Prefix(OrderKeys(_order), OrderKeys(_order'))
    /\ _limit # <<>> => _limit' # <<>>

Extracted(item) ==
    [k \in DOMAIN _to_dict(item) \ {_group[i] : i \in DOMAIN _group} |->
        _to_dict(item)[k]]

\* C22: groups() maps each group key to the dict of that row's selected
\* columns with the GROUP BY columns extracted from it: no value dict holds a
\* GROUP BY column, and the key is the value of the column when there is one
\* GROUP BY column and the tuple of the values when there are several.
C22_GroupColumnsExtracted ==
    gstatus = "returned" =>
        \A key \in DOMAIN grouped :
            /\ \A i \in DOMAIN _group : _group[i] \notin DOMAIN grouped[key]
            /\ \E n \in DOMAIN result :
                   /\ key = GroupKey(_to_dict(result[n]))
                   /\ grouped[key] = Extracted(result[n])

====
